---- MODULE Spec2Model ----
(***************************************************************************)
(* Model of scripts/update.py: the incremental package-version            *)
(* verification pipeline of conda-ecopkgs.                                 *)
(*                                                                         *)
(* Python strings whose characters the code inspects (OS versions, changed *)
(* file paths) are sequences of one-character strings; all other strings   *)
(* (architectures, package versions, channels) are opaque TLA+ strings.    *)
(***************************************************************************)
EXTENDS Integers, Sequences, FiniteSets, TLC

VARIABLES
    pc,            \* position of the run inside verify_updates
    token_set,     \* os.environ has GITEE_API_TOKEN
    cnt,           \* _request: number of requests issued so far
    response,      \* _request: last response
    change_files,  \* verify_updates: list returned by get_change_files
    work_dir_ok,   \* os.path.exists(work_dir)
    idx,           \* verify_updates: position of the for loop over change_files
    update_data,   \* verify_change_file: parsed proposed manifest
    origin_data,   \* verify_change_file: parsed baseline manifest
    pos,           \* verify_change_file: position in the nested for loops
    machine_arch,  \* platform.machine()
    tasks,         \* triples verify_package was called for, current manifest
    outcomes,      \* outcome of every verify_package call of the run, in order
    docker_cmd,    \* verify_package: last command handed to subprocess.run
    parsed,        \* number of changed files handed to verify_change_file
    none_loaded,   \* parse_yaml_data has returned None in this run
    result,        \* return value of verify_updates
    echo,          \* the diagnostic verify_updates printed before returning
    returned,      \* what the last call of verify_package did on leaving
    info_reads,    \* the package.yml files parse_package_info has opened
    tv_in,         \* transform_version_format: argument
    tv_out         \* transform_version_format: returned value

vars == <<pc, token_set, cnt, response, change_files, work_dir_ok, idx,
          update_data, origin_data, pos, machine_arch, tasks,
          outcomes, docker_cmd, parsed, none_loaded, result, echo,
          returned, info_reads, tv_in, tv_out>>

----------------------------------------------------------------------------
(* Bounds of the model. *)

MaxFiles == 2      \* longest changed-file list
MaxArches == 2     \* longest architecture list of one package version
MaxVerLen == 6     \* longest generated OS-version identifier

----------------------------------------------------------------------------
(* Program constants. *)

SUPPORTED_VERSIONS_FILE ==
    <<"s","u","p","p","o","r","t","e","d","-","v","e","r","s","i","o","n","s",
      ".","y","m","l">>

CONDA_IMAGE_REPO == <<"o","p","e","n","e","u","l","e","r","/","c","o","n","d","a">>

CONDA_IMAGE_VERSION == <<"2","5",".","1",".","1">>

VERIFY_SCRIPT_FILE == "scripts/verify.sh"

ORIGIN_CODE_DIR == "origin"

UPDATE_CODE_DIR == "update"

PACKAGE_FILE == "package.yml"

RetryCeiling == 20

PathSegments == 3

----------------------------------------------------------------------------
(* Python str operations on character sequences. *)

UpperChars == <<"A","B","C","D","E","F","G","H","I","J","K","L","M",
                "N","O","P","Q","R","S","T","U","V","W","X","Y","Z">>

LowerChars == <<"a","b","c","d","e","f","g","h","i","j","k","l","m",
                "n","o","p","q","r","s","t","u","v","w","x","y","z">>

\* str.lower() of one character
LowerChar(c) ==
    IF \E i \in 1..Len(UpperChars) : UpperChars[i] = c
    THEN LowerChars[CHOOSE i \in 1..Len(UpperChars) : UpperChars[i] = c]
    ELSE c

\* str.lower()
Lower(s) == [i \in 1..Len(s) |-> LowerChar(s[i])]

\* sub in s
Contains(s, sub) ==
    \E i \in 1..(Len(s) - Len(sub) + 1) : SubSeq(s, i, i + Len(sub) - 1) = sub

\* s.replace(old, ""): one left-to-right pass over non-overlapping matches
RECURSIVE Remove(_, _)
Remove(s, old) ==
    IF Len(s) < Len(old) THEN s
    ELSE IF SubSeq(s, 1, Len(old)) = old
         THEN Remove(SubSeq(s, Len(old) + 1, Len(s)), old)
         ELSE <<s[1]>> \o Remove(Tail(s), old)

\* s.endswith(suffix)
EndsWith(s, suffix) ==
    /\ Len(s) >= Len(suffix)
    /\ SubSeq(s, Len(s) - Len(suffix) + 1, Len(s)) = suffix

\* s.split("/")
RECURSIVE Split(_)
Split(s) ==
    IF \A i \in 1..Len(s) : s[i] # "/" THEN <<s>>
    ELSE LET i == CHOOSE j \in 1..Len(s) :
                      s[j] = "/" /\ \A k \in 1..(j - 1) : s[k] # "/"
         IN  <<SubSeq(s, 1, i - 1)>> \o Split(SubSeq(s, i + 1, Len(s)))

\* transform_version_format deleting "lts" whether or not "-sp" is there
transform_version_format_always_strips(os_version) ==
    LET lower_version == Lower(os_version)
        stripped == Remove(lower_version, <<"l","t","s">>)
        ret == Remove(Remove(stripped, <<".">>), <<"-">>)
    IN  <<"o","e">> \o ret

\* transform openEuler version into the image-tag format
transform_version_format(os_version) ==
    LET lower_version == Lower(os_version)
        stripped == IF Contains(lower_version, <<"-","s","p">>)
                    THEN Remove(lower_version, <<"l","t","s">>)
                    ELSE lower_version
        ret == Remove(Remove(stripped, <<".">>), <<"-">>)
    IN  <<"o","e">> \o ret

----------------------------------------------------------------------------
(* Python values read from the two checkouts. *)

None == [type |-> "NoneType"]

Dict(items) == [type |-> "dict", items |-> items]

\* key in d
HasKey(d, key) == \E i \in 1..Len(d.items) : d.items[i][1] = key

\* d.get(key, default)
DictGet(d, key, default) ==
    IF HasKey(d, key)
    THEN d.items[CHOOSE i \in 1..Len(d.items) : d.items[i][1] = key][2]
    ELSE default

\* x in list
InList(x, list) == \E i \in 1..Len(list) : list[i] = x

\* the lists of at most n different elements of S
ListsUpTo(S, n) ==
    {l \in UNION {[1..k -> S] : k \in 0..n} :
        \A i, j \in 1..Len(l) : i # j => l[i] # l[j]}

----------------------------------------------------------------------------
(* Inputs of a run. *)

Os2203Sp3 == <<"2","2",".","0","3","-","L","T","S","-","S","P","3">>
Os2403Lts == <<"2","4",".","0","3","-","L","T","S">>

OsVersions == {Os2203Sp3, Os2403Lts}

PkgVersions == {"1.2.0"}

Arches == {"x86_64", "aarch64", "noarch"}

MachineArches == {"x86_64", "aarch64"}

ArchLists == ListsUpTo(Arches, MaxArches)

\* supported-versions.yml documents: os version -> package version -> arches
VersionMaps ==
    {Dict(<<>>)} \cup
    {Dict(<< <<v, l>> >>) : v \in PkgVersions, l \in ArchLists}

ManifestTrees ==
    {Dict(<<>>)} \cup
    {Dict(<< <<o, m>> >>) : o \in OsVersions, m \in VersionMaps}

\* what is found at the path of a manifest in a checkout
ManifestFiles ==
    {[kind |-> "absent"], [kind |-> "empty"]} \cup
    {[kind |-> "map", data |-> t] : t \in ManifestTrees}

\* a proposed manifest that gives the string x86_64 where the list of
\* architectures belongs; the for loop over it yields its characters
StringArchTree ==
    Dict(<< <<Os2203Sp3,
              Dict(<< <<"1.2.0", <<"x","8","6","_","6","4">> >> >>)>> >>)

\* what is found at the path of a manifest in the checkout of the proposal
ProposedFiles ==
    ManifestFiles \cup {[kind |-> "map", data |-> StringArchTree]}

PathManifest ==
    <<"p","a","c","k","a","g","e","s","/","f","o","o","/",
      "s","u","p","p","o","r","t","e","d","-","v","e","r","s","i","o","n","s",
      ".","y","m","l">>
PathWrongRoot ==
    <<"d","o","c","s","/","f","o","o","/",
      "s","u","p","p","o","r","t","e","d","-","v","e","r","s","i","o","n","s",
      ".","y","m","l">>
PathPackageFile ==
    <<"p","a","c","k","a","g","e","s","/","f","o","o","/",
      "p","a","c","k","a","g","e",".","y","m","l">>
PathShallow ==
    <<"p","a","c","k","a","g","e","s","/",
      "s","u","p","p","o","r","t","e","d","-","v","e","r","s","i","o","n","s",
      ".","y","m","l">>

ChangedPaths ==
    {PathManifest, PathWrongRoot, PathPackageFile, PathShallow}

FileLists == ListsUpTo(ChangedPaths, MaxFiles)

Os2203Sp3Lower == <<"2","2",".","0","3","-","l","t","s","-","s","p","3">>
Os2403 == <<"2","4",".","0","3">>

VersionChars == {".", "-", "L", "t", "s", "p"}

\* arguments of transform_version_format: the identifiers of the catalogue
\* and every string of at most MaxVerLen characters of VersionChars
VersionInputs ==
    {Os2203Sp3, Os2203Sp3Lower, Os2403, Os2403Lts} \cup
    UNION {[1..k -> VersionChars] : k \in 0..MaxVerLen}

\* responses of the pull-request files endpoint
Responses ==
    {[status_code |-> 500, files |-> <<>>],
     [status_code |-> 204, files |-> <<>>]} \cup
    {[status_code |-> 200, files |-> fl] : fl \in FileLists}

\* what parse_package_info finds in package.yml
PackageInfos ==
    {[channel |-> "conda-forge", dependencies |-> None],
     [channel |-> "conda-forge",
      dependencies |-> [type |-> "list", items |-> <<"bioconda", "pytorch">>]]}

----------------------------------------------------------------------------
(* The functions of update.py. *)

\* verify_updates: the test that lets a changed file through to
\* verify_change_file
IsVersionsFile(change_file) ==
    ~(\/ ~EndsWith(change_file, SUPPORTED_VERSIONS_FILE)
      \/ Len(Split(change_file)) # PathSegments)

\* open(yaml_file) and yaml.load: an empty document loads as None
yaml_load(file) == IF file.kind = "empty" THEN None ELSE file.data

parse_yaml_data(file) ==
    IF file.kind = "absent" THEN Dict(<<>>) ELSE yaml_load(file)

\* the (os_version, package_version, arch) triples in the order the three
\* nested for loops of verify_change_file visit them
RECURSIVE ArchTriples(_, _, _)
ArchTriples(os_version, versions, j) ==
    IF j > Len(versions.items) THEN <<>>
    ELSE LET package_version == versions.items[j][1]
             arches == versions.items[j][2]
         IN  [k \in 1..Len(arches) |->
                 <<os_version, package_version, arches[k]>>]
             \o ArchTriples(os_version, versions, j + 1)

RECURSIVE VersionTriples(_, _)
VersionTriples(data, i) ==
    IF i > Len(data.items) THEN <<>>
    ELSE ArchTriples(data.items[i][1], data.items[i][2], 1)
         \o VersionTriples(data, i + 1)

Triples(data) == VersionTriples(data, 1)

\* need_verify without the look-up in origin_data
need_verify_any_baseline(origin, os_version, package_version, os_arch) ==
    ~(os_arch # machine_arch /\ os_arch # "noarch")

\* need_verify with the membership test inverted
need_verify_known_arch(origin, os_version, package_version, os_arch) ==
    LET app_versions == DictGet(origin, os_version, Dict(<<>>))
        origin_arches == DictGet(app_versions, package_version, <<>>)
    IN  IF os_arch # machine_arch /\ os_arch # "noarch"
        THEN FALSE
        ELSE InList(os_arch, origin_arches)

\* need_verify without the "noarch" exemption
need_verify_machine_only(origin, os_version, package_version, os_arch) ==
    LET app_versions == DictGet(origin, os_version, Dict(<<>>))
        origin_arches == DictGet(app_versions, package_version, <<>>)
    IN  IF os_arch # machine_arch
        THEN FALSE
        ELSE ~InList(os_arch, origin_arches)

\* need_verify without the architecture filter
need_verify_any_arch(origin, os_version, package_version, os_arch) ==
    LET app_versions == DictGet(origin, os_version, Dict(<<>>))
        origin_arches == DictGet(app_versions, package_version, <<>>)
    IN  ~InList(os_arch, origin_arches)

\* need_verify, for origin_data a dict
need_verify(origin, os_version, package_version, os_arch) ==
    LET app_versions == DictGet(origin, os_version, Dict(<<>>))
        origin_arches == DictGet(app_versions, package_version, <<>>)
    IN  IF os_arch # machine_arch /\ os_arch # "noarch"
        THEN FALSE
        ELSE ~InList(os_arch, origin_arches)

\* the while condition of _request; a Response is falsy when its status is
\* an error status
Falsy(r) == IF r = None THEN TRUE ELSE r.status_code >= 400

\* the while condition of _request letting one more request through
RequestAgain_one_more(r, c) == Falsy(r) /\ c <= RetryCeiling

RequestAgain(r, c) == Falsy(r) /\ c < RetryCeiling

\* verify_package: the command handed to subprocess.run
\* The file parse_package_info opens, as the parts os.path.join is given
\* after work_dir.
PackageInfoFile(package) ==
    <<UPDATE_CODE_DIR, "packages", package, PACKAGE_FILE>>

\* DockerCommand with the script taken from the checkout of the proposal
DockerCommand_update_script(package, os_version, package_version, info) ==
    LET verify_script == <<UPDATE_CODE_DIR, VERIFY_SCRIPT_FILE>>
        os_suffix == transform_version_format(os_version)
        image_tag == CONDA_IMAGE_VERSION \o <<"-">> \o os_suffix
        base == <<"sudo", "docker", "run", "--rm", "--privileged",
                  "-v", <<verify_script, ":", verify_script>>,
                  CONDA_IMAGE_REPO \o <<":">> \o image_tag,
                  "bash", "-x", "--", verify_script,
                  "-p", package,
                  "-c", info.channel,
                  "-v", package_version>>
    IN  IF info.dependencies # None /\ info.dependencies.items # <<>>
        THEN base \o <<"-d">> \o info.dependencies.items
        ELSE base

DockerCommand(package, os_version, package_version, info) ==
    LET verify_script == <<ORIGIN_CODE_DIR, VERIFY_SCRIPT_FILE>>
        os_suffix == transform_version_format(os_version)
        image_tag == CONDA_IMAGE_VERSION \o <<"-">> \o os_suffix
        base == <<"sudo", "docker", "run", "--rm", "--privileged",
                  "-v", <<verify_script, ":", verify_script>>,
                  CONDA_IMAGE_REPO \o <<":">> \o image_tag,
                  "bash", "-x", "--", verify_script,
                  "-p", package,
                  "-c", info.channel,
                  "-v", package_version>>
    IN  IF info.dependencies # None /\ info.dependencies.items # <<>>
        THEN base \o <<"-d">> \o info.dependencies.items
        ELSE base

----------------------------------------------------------------------------
(* The run of verify_updates. *)

Init ==
    /\ pc = "get_change_files"
    /\ token_set \in BOOLEAN
    /\ work_dir_ok \in BOOLEAN
    /\ machine_arch \in MachineArches
    /\ cnt = 0
    /\ response = None
    /\ change_files = <<>>
    /\ idx = 0
    /\ update_data = None
    /\ origin_data = None
    /\ pos = 0
    /\ tasks = <<>>
    /\ outcomes = <<>>
    /\ docker_cmd = <<>>
    /\ parsed = 0
    /\ none_loaded = FALSE
    /\ result = FALSE
    /\ echo = ""
    /\ returned = "nothing"
    /\ info_reads = <<>>
    /\ tv_in = <<>>
    /\ tv_out = <<>>

\* verify_updates prints message and returns value; its locals and those of
\* its callees are gone
Return(value, message) ==
    /\ pc' = "done"
    /\ result' = value
    /\ echo' = message
    /\ cnt' = 0
    /\ response' = None
    /\ idx' = 0
    /\ update_data' = None
    /\ origin_data' = None
    /\ pos' = 0
    /\ tasks' = <<>>
    /\ docker_cmd' = <<>>

\* get_change_files up to the call of _request; a missing GITEE_API_TOKEN
\* is a KeyError caught by verify_updates
GetChangeFiles ==
    /\ pc = "get_change_files"
    /\ IF token_set
       THEN /\ pc' = "_request"
            /\ cnt' = 0
            /\ response' = None
            /\ UNCHANGED <<result, echo, idx, update_data, origin_data, pos,
                           tasks, docker_cmd>>
       ELSE Return(FALSE, "Unexpected error")
    /\ UNCHANGED <<token_set, change_files, work_dir_ok, machine_arch,
                   outcomes, returned, info_reads, parsed, none_loaded,
                   tv_in, tv_out>>

\* one iteration of the while loop of _request
RequestGetFrom(responses) ==
    /\ pc = "_request"
    /\ RequestAgain(response, cnt)
    /\ \E r \in responses :
          /\ response' = r
          /\ cnt' = cnt + 1
    /\ UNCHANGED <<pc, token_set, change_files, work_dir_ok, idx,
                   update_data, origin_data, pos, machine_arch, tasks,
                   outcomes, returned, info_reads, docker_cmd, parsed,
                   none_loaded, result, echo, tv_in, tv_out>>

RequestGet == RequestGetFrom(Responses)

\* requests.get raises: the exception leaves _request and get_change_files
\* and is caught by verify_updates
RequestRaises ==
    /\ pc = "_request"
    /\ RequestAgain(response, cnt)
    /\ Return(FALSE, "Unexpected error")
    /\ UNCHANGED <<token_set, change_files, work_dir_ok, machine_arch,
                   outcomes, returned, info_reads, parsed, none_loaded,
                   tv_in, tv_out>>

\* RequestReturn without the test for an empty list
RequestReturn_unchecked ==
    /\ pc = "_request"
    /\ ~RequestAgain(response, cnt)
    /\ LET files == IF response.status_code = 200
                    THEN response.files ELSE <<>>
       IN  IF ~work_dir_ok
           THEN /\ Return(FALSE, "Working directory not found")
                /\ change_files' = files
           ELSE /\ pc' = "verify_updates"
                /\ change_files' = files
                /\ idx' = 1
                /\ cnt' = 0
                /\ response' = None
                /\ UNCHANGED <<result, echo, update_data, origin_data, pos,
                               tasks, docker_cmd>>
    /\ UNCHANGED <<token_set, work_dir_ok, machine_arch, outcomes, returned,
                   info_reads, parsed, none_loaded, tv_in, tv_out>>

\* RequestReturn without the test of the working directory
RequestReturn_any_dir ==
    /\ pc = "_request"
    /\ ~RequestAgain(response, cnt)
    /\ LET files == IF response.status_code = 200
                    THEN response.files ELSE <<>>
       IN  IF files = <<>>
           THEN /\ Return(FALSE, "No changed files found")
                /\ change_files' = files
           ELSE /\ pc' = "verify_updates"
                /\ change_files' = files
                /\ idx' = 1
                /\ cnt' = 0
                /\ response' = None
                /\ UNCHANGED <<result, echo, update_data, origin_data, pos,
                               tasks, docker_cmd>>
    /\ UNCHANGED <<token_set, work_dir_ok, machine_arch, outcomes, returned,
                   info_reads, parsed, none_loaded, tv_in, tv_out>>

\* _request returns; get_change_files reads the response; verify_updates
\* checks the list and the working directory
RequestReturn ==
    /\ pc = "_request"
    /\ ~RequestAgain(response, cnt)
    /\ LET files == IF response.status_code = 200
                    THEN response.files ELSE <<>>
       IN  IF files = <<>>
           THEN /\ Return(FALSE, "No changed files found")
                /\ change_files' = files
           ELSE IF ~work_dir_ok
           THEN /\ Return(FALSE, "Working directory not found")
                /\ change_files' = files
           ELSE /\ pc' = "verify_updates"
                /\ change_files' = files
                /\ idx' = 1
                /\ cnt' = 0
                /\ response' = None
                /\ UNCHANGED <<result, echo, update_data, origin_data, pos,
                               tasks, docker_cmd>>
    /\ UNCHANGED <<token_set, work_dir_ok, machine_arch, outcomes, returned,
                   info_reads, parsed, none_loaded, tv_in, tv_out>>

\* AllFilesVerified returning False
AllFilesVerified_false ==
    /\ pc = "verify_updates"
    /\ idx > Len(change_files)
    /\ Return(FALSE, "")
    /\ UNCHANGED <<token_set, change_files, work_dir_ok, machine_arch,
                   outcomes, returned, info_reads, parsed, none_loaded,
                   tv_in, tv_out>>

\* the for loop of verify_updates is exhausted
AllFilesVerified ==
    /\ pc = "verify_updates"
    /\ idx > Len(change_files)
    /\ Return(TRUE, "")
    /\ UNCHANGED <<token_set, change_files, work_dir_ok, machine_arch,
                   outcomes, returned, info_reads, parsed, none_loaded,
                   tv_in, tv_out>>

\* the changed file is not a versions file: continue
SkipFile ==
    /\ pc = "verify_updates"
    /\ idx <= Len(change_files)
    /\ ~IsVersionsFile(change_files[idx])
    /\ idx' = idx + 1
    /\ UNCHANGED <<pc, token_set, cnt, response, change_files, work_dir_ok,
                   update_data, origin_data, pos, machine_arch, tasks,
                   outcomes, returned, info_reads, docker_cmd, parsed,
                   none_loaded, result, echo, tv_in, tv_out>>

\* verify_change_file is entered: both manifests are parsed; iterating a
\* proposed manifest that loaded as None is an AttributeError
ParseManifestsFrom(update_files, origin_files) ==
    /\ pc = "verify_updates"
    /\ idx <= Len(change_files)
    /\ IsVersionsFile(change_files[idx])
    /\ parsed' = parsed + 1
    /\ \E update_file \in update_files, origin_file \in origin_files :
          /\ none_loaded' = (\/ none_loaded
                             \/ parse_yaml_data(update_file) = None
                             \/ parse_yaml_data(origin_file) = None)
          /\ IF parse_yaml_data(update_file) = None
             THEN Return(FALSE, "Unexpected error")
             ELSE
               /\ update_data' = parse_yaml_data(update_file)
               /\ origin_data' = parse_yaml_data(origin_file)
               /\ pc' = "verify_change_file"
               /\ pos' = 1
               /\ tasks' = <<>>
               /\ UNCHANGED <<result, echo, cnt, response, idx, docker_cmd>>
    /\ UNCHANGED <<token_set, change_files, work_dir_ok, machine_arch,
                   outcomes, returned, info_reads, tv_in, tv_out>>

ParseManifests == ParseManifestsFrom(ProposedFiles, ManifestFiles)

\* the loops of verify_change_file are exhausted: it returns True and
\* verify_updates continues with the next changed file
ManifestVerified ==
    /\ pc = "verify_change_file"
    /\ pos > Len(Triples(update_data))
    /\ pc' = "verify_updates"
    /\ idx' = idx + 1
    /\ update_data' = None
    /\ origin_data' = None
    /\ pos' = 0
    /\ tasks' = <<>>
    /\ UNCHANGED <<token_set, cnt, response, change_files, work_dir_ok,
                   machine_arch, outcomes, returned, info_reads, docker_cmd,
                   parsed, none_loaded, result, echo, tv_in, tv_out>>

\* the AttributeError of need_verify leaving verify_updates uncaught
CompareRaises_propagates ==
    /\ pc = "verify_change_file"
    /\ pos <= Len(Triples(update_data))
    /\ origin_data = None
    /\ pc' = "raised"
    /\ UNCHANGED <<token_set, cnt, response, change_files, work_dir_ok, idx,
                   update_data, origin_data, pos, machine_arch, tasks,
                   outcomes, returned, info_reads, docker_cmd, parsed,
                   none_loaded, result, echo, tv_in, tv_out>>

\* need_verify on a baseline that loaded as None is an AttributeError
CompareRaises ==
    /\ pc = "verify_change_file"
    /\ pos <= Len(Triples(update_data))
    /\ origin_data = None
    /\ Return(FALSE, "Unexpected error")
    /\ UNCHANGED <<token_set, change_files, work_dir_ok, machine_arch,
                   outcomes, returned, info_reads, parsed, none_loaded,
                   tv_in, tv_out>>

\* need_verify returns False: continue
SkipTriple ==
    /\ pc = "verify_change_file"
    /\ pos <= Len(Triples(update_data))
    /\ origin_data # None
    /\ LET t == Triples(update_data)[pos]
       IN  ~need_verify(origin_data, t[1], t[2], t[3])
    /\ pos' = pos + 1
    /\ UNCHANGED <<pc, token_set, cnt, response, change_files, work_dir_ok,
                   idx, update_data, origin_data, machine_arch, tasks,
                   outcomes, returned, info_reads, docker_cmd, parsed,
                   none_loaded, result, echo, tv_in, tv_out>>

\* need_verify returns True: verify_package is called
CallVerifyPackage ==
    /\ pc = "verify_change_file"
    /\ pos <= Len(Triples(update_data))
    /\ origin_data # None
    /\ LET t == Triples(update_data)[pos]
       IN  /\ need_verify(origin_data, t[1], t[2], t[3])
           /\ tasks' = Append(tasks, t)
    /\ pc' = "verify_package"
    /\ UNCHANGED <<token_set, cnt, response, change_files, work_dir_ok, idx,
                   update_data, origin_data, pos, machine_arch, outcomes,
                   returned, info_reads, docker_cmd, parsed, none_loaded,
                   result, echo, tv_in, tv_out>>

\* ScriptMissing with verify_change_file going on to the next triple
ScriptMissing_continues ==
    /\ pc = "verify_package"
    /\ outcomes' = Append(outcomes, "script_missing")
    /\ returned' = "False"
    /\ pc' = "verify_change_file"
    /\ pos' = pos + 1
    /\ UNCHANGED <<token_set, cnt, response, change_files, work_dir_ok, idx,
                   update_data, origin_data, machine_arch, tasks, info_reads,
                   docker_cmd, parsed, none_loaded, result, echo, tv_in,
                   tv_out>>

\* verify.sh is not a file of the origin checkout: verify_package returns
\* False, and so do verify_change_file and verify_updates
ScriptMissing ==
    /\ pc = "verify_package"
    /\ outcomes' = Append(outcomes, "script_missing")
    /\ returned' = "False"
    /\ UNCHANGED info_reads
    /\ Return(FALSE, "Failed to verify versions")
    /\ UNCHANGED <<token_set, change_files, work_dir_ok, machine_arch,
                   parsed, none_loaded, tv_in, tv_out>>

\* verify_package catching the failure of parse_package_info itself
PackageInfoRaises_swallowed ==
    /\ pc = "verify_package"
    /\ outcomes' = Append(outcomes, "metadata_error")
    /\ returned' = "False"
    /\ info_reads' = Append(info_reads,
                             PackageInfoFile(Split(change_files[idx])[2]))
    /\ Return(FALSE, "Failed to verify versions")
    /\ UNCHANGED <<token_set, change_files, work_dir_ok, machine_arch,
                   parsed, none_loaded, tv_in, tv_out>>

\* parse_package_info raises: the exception is caught by verify_updates
PackageInfoRaises ==
    /\ pc = "verify_package"
    /\ outcomes' = Append(outcomes, "metadata_error")
    /\ returned' = "raised"
    /\ info_reads' = Append(info_reads,
                             PackageInfoFile(Split(change_files[idx])[2]))
    /\ Return(FALSE, "Unexpected error")
    /\ UNCHANGED <<token_set, change_files, work_dir_ok, machine_arch,
                   parsed, none_loaded, tv_in, tv_out>>

\* verify_package builds the command and calls subprocess.run
RunSandbox ==
    /\ pc = "verify_package"
    /\ LET t == Triples(update_data)[pos]
           package == Split(change_files[idx])[2]
       IN  /\ \E info \in PackageInfos :
                 docker_cmd' = DockerCommand(package, t[1], t[2], info)
           /\ info_reads' = Append(info_reads, PackageInfoFile(package))
    /\ pc' = "subprocess_run"
    /\ UNCHANGED <<token_set, cnt, response, change_files, work_dir_ok, idx,
                   update_data, origin_data, pos, machine_arch, tasks,
                   outcomes, returned, parsed, none_loaded,
                   result, echo, tv_in, tv_out>>

\* SandboxSucceeds with verify_change_file staying at the same triple
SandboxSucceeds_same_triple ==
    /\ pc = "subprocess_run"
    /\ outcomes' = Append(outcomes, "success")
    /\ returned' = "True"
    /\ UNCHANGED info_reads
    /\ docker_cmd' = <<>>
    /\ pc' = "verify_change_file"
    /\ UNCHANGED <<token_set, cnt, response, change_files, work_dir_ok, idx,
                   update_data, origin_data, pos, machine_arch, tasks, parsed,
                   none_loaded, result, echo, tv_in, tv_out>>

\* SandboxSucceeds with verify_change_file leaving out the next triple
SandboxSucceeds_skips_next ==
    /\ pc = "subprocess_run"
    /\ outcomes' = Append(outcomes, "success")
    /\ returned' = "True"
    /\ UNCHANGED info_reads
    /\ docker_cmd' = <<>>
    /\ pc' = "verify_change_file"
    /\ pos' = pos + 2
    /\ UNCHANGED <<token_set, cnt, response, change_files, work_dir_ok, idx,
                   update_data, origin_data, machine_arch, tasks, parsed,
                   none_loaded, result, echo, tv_in, tv_out>>

\* subprocess.run returns with exit status 0: verify_package returns True
SandboxSucceeds ==
    /\ pc = "subprocess_run"
    /\ outcomes' = Append(outcomes, "success")
    /\ returned' = "True"
    /\ UNCHANGED info_reads
    /\ docker_cmd' = <<>>
    /\ pc' = "verify_change_file"
    /\ pos' = pos + 1
    /\ UNCHANGED <<token_set, cnt, response, change_files, work_dir_ok, idx,
                   update_data, origin_data, machine_arch, tasks, parsed,
                   none_loaded, result, echo, tv_in, tv_out>>

\* SandboxFails with verify_change_file going on to the next triple
SandboxFails_continues ==
    /\ pc = "subprocess_run"
    /\ \E o \in {"failure", "docker_missing", "error"} :
          outcomes' = Append(outcomes, o)
    /\ returned' = "False"
    /\ UNCHANGED info_reads
    /\ docker_cmd' = <<>>
    /\ pc' = "verify_change_file"
    /\ pos' = pos + 1
    /\ UNCHANGED <<token_set, cnt, response, change_files, work_dir_ok, idx,
                   update_data, origin_data, machine_arch, tasks, parsed,
                   none_loaded, result, echo, tv_in, tv_out>>

\* subprocess.run raises CalledProcessError (non-zero exit),
\* FileNotFoundError (no docker) or another exception: verify_package
\* returns False, and so do verify_change_file and verify_updates
SandboxFails ==
    /\ pc = "subprocess_run"
    /\ \E o \in {"failure", "docker_missing", "error"} :
          outcomes' = Append(outcomes, o)
    /\ returned' = "False"
    /\ UNCHANGED info_reads
    /\ Return(FALSE, "Failed to verify versions")
    /\ UNCHANGED <<token_set, change_files, work_dir_ok, machine_arch,
                   parsed, none_loaded, tv_in, tv_out>>

Next ==
    \/ GetChangeFiles
    \/ RequestGet
    \/ RequestRaises
    \/ RequestReturn
    \/ AllFilesVerified
    \/ SkipFile
    \/ ParseManifests
    \/ ManifestVerified
    \/ CompareRaises
    \/ SkipTriple
    \/ CallVerifyPackage
    \/ ScriptMissing
    \/ PackageInfoRaises
    \/ RunSandbox
    \/ SandboxSucceeds
    \/ SandboxFails

Spec == Init /\ [][Next]_vars

----------------------------------------------------------------------------
(* The polling of the change-set source on its own: the run up to the      *)
(* return of get_change_files. Every call the program makes returns or     *)
(* raises, so a step that can be taken is taken.                           *)

NextRequest ==
    \/ GetChangeFiles
    \/ RequestGet
    \/ RequestRaises
    \/ RequestReturn

SpecRequest == Init /\ [][NextRequest]_vars /\ WF_vars(NextRequest)

----------------------------------------------------------------------------
(* transform_version_format on its own. *)

InitTransform ==
    /\ pc = "transform_version_format"
    /\ tv_in \in VersionInputs
    /\ tv_out = <<>>
    /\ token_set = TRUE
    /\ work_dir_ok = TRUE
    /\ machine_arch = "x86_64"
    /\ cnt = 0
    /\ response = None
    /\ change_files = <<>>
    /\ idx = 0
    /\ update_data = None
    /\ origin_data = None
    /\ pos = 0
    /\ tasks = <<>>
    /\ outcomes = <<>>
    /\ docker_cmd = <<>>
    /\ parsed = 0
    /\ none_loaded = FALSE
    /\ result = FALSE
    /\ echo = ""
    /\ returned = "nothing"
    /\ info_reads = <<>>

Transform ==
    /\ pc = "transform_version_format"
    /\ tv_out' = transform_version_format(tv_in)
    /\ pc' = "returned"
    /\ UNCHANGED <<token_set, cnt, response, change_files, work_dir_ok, idx,
                   update_data, origin_data, pos, machine_arch, tasks,
                   outcomes, returned, info_reads, docker_cmd, parsed,
                   none_loaded, result, echo, tv_in>>

NextTransform == Transform

SpecTransform == InitTransform /\ [][NextTransform]_vars

----------------------------------------------------------------------------
(* verify_updates on one pull request: the change list names a versions    *)
(* file of package foo, under the name supported-versions.yml or under the *)
(* name support-versions.yml; the proposal declares 1.2.0 for              *)
(* 22.03-LTS-SP3 on x86_64 and noarch, and the baseline declares nothing.  *)

PathSupport ==
    <<"p","a","c","k","a","g","e","s","/","f","o","o","/",
      "s","u","p","p","o","r","t","-","v","e","r","s","i","o","n","s",
      ".","y","m","l">>

ScenarioPaths == {PathSupport, PathManifest}

ScenarioResponses ==
    {[status_code |-> 500, files |-> <<>>],
     [status_code |-> 204, files |-> <<>>]} \cup
    {[status_code |-> 200, files |-> fl] :
        fl \in ListsUpTo(ScenarioPaths, MaxFiles)}

ScenarioTree ==
    Dict(<< <<Os2203Sp3,
              Dict(<< <<"1.2.0", <<"x86_64", "noarch">> >> >>)>> >>)

ScenarioProposed == {[kind |-> "map", data |-> ScenarioTree]}

ScenarioBaseline == {[kind |-> "absent"], [kind |-> "map", data |-> Dict(<<>>)]}

RequestGetScenario == RequestGetFrom(ScenarioResponses)

ParseManifestsScenario ==
    ParseManifestsFrom(ScenarioProposed, ScenarioBaseline)

NextScenario ==
    \/ GetChangeFiles
    \/ RequestGetScenario
    \/ RequestRaises
    \/ RequestReturn
    \/ AllFilesVerified
    \/ SkipFile
    \/ ParseManifestsScenario
    \/ ManifestVerified
    \/ SkipTriple
    \/ CallVerifyPackage
    \/ ScriptMissing
    \/ PackageInfoRaises
    \/ RunSandbox
    \/ SandboxSucceeds
    \/ SandboxFails

SpecScenario == Init /\ [][NextScenario]_vars

----------------------------------------------------------------------------
(* The script as a whole: the working directory is created, both trees are *)
(* cloned into it, verify_updates runs, and the process exits.             *)
(* work_dir_ok is os.path.exists(work_dir); pc ends at exit_0, exit_1 or,  *)
(* for an exception nothing catches, traceback.                            *)

InitMain ==
    /\ pc = "main"
    /\ token_set \in BOOLEAN
    /\ work_dir_ok \in BOOLEAN
    /\ machine_arch \in MachineArches
    /\ cnt = 0
    /\ response = None
    /\ change_files = <<>>
    /\ idx = 0
    /\ update_data = None
    /\ origin_data = None
    /\ pos = 0
    /\ tasks = <<>>
    /\ outcomes = <<>>
    /\ docker_cmd = <<>>
    /\ parsed = 0
    /\ none_loaded = FALSE
    /\ result = FALSE
    /\ echo = ""
    /\ returned = "nothing"
    /\ info_reads = <<>>
    /\ tv_in = <<>>
    /\ tv_out = <<>>

\* a working directory left by an earlier run is removed
MainCreateWorkdir ==
    /\ pc = "main"
    /\ work_dir_ok' = FALSE
    /\ pc' = "pull_source_code"
    /\ UNCHANGED <<token_set, cnt, response, change_files, idx, update_data,
                   origin_data, pos, machine_arch, tasks, outcomes, returned,
                   info_reads, docker_cmd, parsed, none_loaded, result, echo,
                   tv_in, tv_out>>

\* pull_source_code: os.makedirs creates the working directory; nothing
\* catches what get_source_code raises (no token, a request that fails, no
\* repository in the answer); a git clone that fails makes the script exit
PullSourceCode ==
    /\ pc = "pull_source_code"
    /\ work_dir_ok' = TRUE
    /\ IF ~token_set
       THEN pc' = "traceback"
       ELSE pc' \in {"traceback", "exit_1", "pull_origin_code"}
    /\ UNCHANGED <<token_set, cnt, response, change_files, idx, update_data,
                   origin_data, pos, machine_arch, tasks, outcomes, returned,
                   info_reads, docker_cmd, parsed, none_loaded, result, echo,
                   tv_in, tv_out>>

\* pull_origin_code, and the call of verify_updates when the clone succeeds
PullOriginCode ==
    /\ pc = "pull_origin_code"
    /\ work_dir_ok' = TRUE
    /\ pc' \in {"exit_1", "get_change_files"}
    /\ UNCHANGED <<token_set, cnt, response, change_files, idx, update_data,
                   origin_data, pos, machine_arch, tasks, outcomes, returned,
                   info_reads, docker_cmd, parsed, none_loaded, result, echo,
                   tv_in, tv_out>>

\* verify_updates has returned: sys.exit(1) when it returned False,
\* otherwise clear_all removes the working directory
MainExit ==
    /\ pc = "done"
    /\ IF ~result
       THEN /\ pc' = "exit_1"
            /\ UNCHANGED work_dir_ok
       ELSE /\ pc' = "exit_0"
            /\ work_dir_ok' = FALSE
    /\ UNCHANGED <<token_set, cnt, response, change_files, idx, update_data,
                   origin_data, pos, machine_arch, tasks, outcomes, returned,
                   info_reads, docker_cmd, parsed, none_loaded, result, echo,
                   tv_in, tv_out>>

NextMain ==
    \/ MainCreateWorkdir
    \/ PullSourceCode
    \/ PullOriginCode
    \/ Next
    \/ MainExit

SpecMain == InitMain /\ [][NextMain]_vars

----------------------------------------------------------------------------
(* The tag expected for an OS version, position by position.               *)

\* the characters of s outside every occurrence of "lts" (occurrences of
\* "lts" cannot overlap)
OutsideLts(s) ==
    LET starts == {i \in 1..(Len(s) - 2) :
                      s[i] = "l" /\ s[i + 1] = "t" /\ s[i + 2] = "s"}
        Keep(i) == \A j \in starts : i < j \/ i > j + 2
        kept == {i \in 1..Len(s) : Keep(i)}
        Rank(i) == Cardinality({j \in kept : j <= i})
    IN  [k \in 1..Cardinality(kept) |->
            s[CHOOSE i \in kept : Rank(i) = k]]

NotSeparator(c) == c \notin {".", "-"}

HasServicePack(s) ==
    \E i \in 1..(Len(s) - 2) : s[i] = "-" /\ s[i + 1] = "s" /\ s[i + 2] = "p"

ExpectedTag(v) ==
    LET low == [i \in 1..Len(v) |-> LowerChar(v[i])]
    IN  <<"o", "e">> \o
        SelectSeq(IF HasServicePack(low) THEN OutsideLts(low) ELSE low,
                  NotSeparator)

(* C8: transform_version_format(v) is "oe" followed by lowercase(v), with   *)
(* every occurrence of "lts" taken out exactly when lowercase(v) contains   *)
(* the service-pack marker "-sp", and with every "." and "-" taken out;     *)
(* "22.03-LTS-SP3" and "22.03-lts-sp3" give "oe2203sp3", "24.03" gives      *)
(* "oe2403" and "24.03-LTS" gives "oe2403lts".                              *)
C8_VersionFormat ==
    pc = "returned" =>
        /\ tv_out = ExpectedTag(tv_in)
        /\ tv_in \in {Os2203Sp3, Os2203Sp3Lower} =>
               tv_out = <<"o","e","2","2","0","3","s","p","3">>
        /\ tv_in = Os2403 => tv_out = <<"o","e","2","4","0","3">>
        /\ tv_in = Os2403Lts =>
               tv_out = <<"o","e","2","4","0","3","l","t","s">>

C8_Witness ==
    /\ pc = "returned"
    /\ tv_in = Os2203Sp3
    /\ tv_out = <<"o","e","2","2","0","3","s","p","3">>

----------------------------------------------------------------------------
(* Claims about the comparison of the two manifests.                       *)

\* the manifest tree declares architecture t[3] for OS version t[1] and
\* package version t[2]
Declares(tree, t) ==
    \E i \in 1..Len(tree.items) :
        /\ tree.items[i][1] = t[1]
        /\ \E j \in 1..Len(tree.items[i][2].items) :
              /\ tree.items[i][2].items[j][1] = t[2]
              /\ \E k \in 1..Len(tree.items[i][2].items[j][2]) :
                    tree.items[i][2].items[j][2][k] = t[3]

\* every triple a manifest tree declares
Declared(tree) ==
    {t \in OsVersions \X PkgVersions \X Arches : Declares(tree, t)}

Eligible(t) == t[3] = machine_arch \/ t[3] = "noarch"

Range(seq) == {seq[i] : i \in 1..Len(seq)}

\* verify_change_file is running
Comparing == pc \in {"verify_change_file", "verify_package", "subprocess_run"}

\* the loops of verify_change_file have visited every triple
Exhausted == pc = "verify_change_file" /\ pos > Len(Triples(update_data))

(* C1: verify_package is only called for a triple that the proposed tree   *)
(* declares and the baseline tree does not (its architecture is not in     *)
(* baseline[osVersion][packageVersion], or one of the two keys is missing  *)
(* from the baseline).                                                     *)
C1_OnlyNovelTriples ==
    \A n \in 1..Len(tasks) :
        /\ Comparing
        /\ origin_data # None
        /\ Declares(update_data, tasks[n])
        /\ ~Declares(origin_data, tasks[n])

\* a triple of the baseline was skipped and a new one of the same OS and
\* package version is handed to verify_package
C1_Witness ==
    /\ pc = "subprocess_run"
    /\ Len(tasks) = 1
    /\ pos = 2
    /\ Declares(origin_data, Triples(update_data)[1])
    /\ Eligible(Triples(update_data)[1])

(* C2: a manifest compared against itself gives no task: no call of        *)
(* verify_package, no sandbox, and verify_change_file returns True.        *)
C2_NoNoveltyAgainstSelf ==
    [][(Comparing /\ update_data = origin_data) =>
          /\ tasks' = <<>>
          /\ outcomes' = outcomes
          /\ \/ pc' = "verify_change_file" /\ pos' = pos + 1
             \/ pc' = "verify_updates" /\ idx' = idx + 1]_vars

\* a manifest with eligible triples was compared against itself to the end
C2_Witness ==
    /\ Exhausted
    /\ update_data = origin_data
    /\ \E t \in Range(Triples(update_data)) : Eligible(t)

C4_ArchitectureFilter ==
    \A n \in 1..Len(tasks) :
        tasks[n][3] = machine_arch \/ tasks[n][3] = "noarch"

\* a triple of another architecture that the baseline does not have was
\* passed over and a later one is in the sandbox
C4_Witness ==
    /\ pc = "subprocess_run"
    /\ pos = 2
    /\ ~Eligible(Triples(update_data)[1])
    /\ ~Declares(origin_data, Triples(update_data)[1])
    /\ tasks = <<Triples(update_data)[2]>>

----------------------------------------------------------------------------
(* Claims about the run of verify_updates.                                 *)

AllSuccess == \A n \in 1..Len(outcomes) : outcomes[n] = "success"

(* C5: once a call of verify_package has ended without success the run is  *)
(* over and has failed: that call is the last one, and no later triple or  *)
(* changed file is looked at.                                              *)
C5_FailFast ==
    \A n \in 1..Len(outcomes) :
        outcomes[n] # "success" =>
            /\ n = Len(outcomes)
            /\ pc = "done"
            /\ result = FALSE

\* the second task failed and the second versions file of the change was
\* never parsed
C5_Witness ==
    /\ pc = "done"
    /\ outcomes = <<"success", "failure">>
    /\ Len(change_files) = 2
    /\ IsVersionsFile(change_files[1])
    /\ IsVersionsFile(change_files[2])
    /\ parsed = 1

C7_EmptyChangeSet ==
    (pc = "done" /\ change_files = <<>>) =>
        /\ result = FALSE
        /\ parsed = 0
        /\ outcomes = <<>>

\* get_change_files returned an empty list
C7_Witness ==
    /\ pc = "done"
    /\ change_files = <<>>
    /\ echo = "No changed files found"

\* packages/<name>/supported-versions.yml
IsManifestPath(change_file) ==
    LET parts == Split(change_file)
    IN  /\ Len(parts) = PathSegments
        /\ parts[1] = <<"p","a","c","k","a","g","e","s">>
        /\ parts[3] = SUPPORTED_VERSIONS_FILE

(* C9, as claimed: the changed file at hand is handed to                   *)
(* verify_change_file if and only if it is packages/<name>/ followed by    *)
(* the manifest file name; every other path is skipped.                    *)
C9_Original ==
    [][(pc = "verify_updates" /\ idx <= Len(change_files)) =>
          (parsed' = parsed + 1 <=> IsManifestPath(change_files[idx]))]_vars

(* C10: _request issues at least one and at most RetryCeiling requests,    *)
(* issues none after a response that is not an error, and returns; when    *)
(* all RetryCeiling responses are errors the run fails.                    *)
C10_BoundedPolling ==
    /\ [](cnt <= RetryCeiling)
    /\ [][(pc = "_request" /\ ~Falsy(response)) =>
             (cnt' = 0 /\ pc' # "_request")]_vars
    /\ [][(pc = "_request" /\ cnt = 0) =>
             \/ cnt' = 1
             \/ pc' = "done" /\ echo' = "Unexpected error"]_vars
    /\ [][(pc = "_request" /\ cnt = RetryCeiling /\ Falsy(response)) =>
             (pc' = "done" /\ result' = FALSE)]_vars
    /\ <>(pc \in {"done", "verify_updates"})

\* the last request allowed was answered with an error
C10_Witness ==
    /\ pc = "_request"
    /\ cnt = RetryCeiling
    /\ Falsy(response)

----------------------------------------------------------------------------
(* How a call of verify_package that did not succeed is reported.          *)

LastOutcome == outcomes[Len(outcomes)]

\* the ways verify_package ends without having run the command to its end
ConfigurationErrors == {"script_missing", "docker_missing", "metadata_error"}

\* a call of verify_package ended without success
TaskNotVerified ==
    /\ pc = "done"
    /\ outcomes # <<>>
    /\ LastOutcome # "success"

----------------------------------------------------------------------------
(* Manifests that are not a mapping of mappings of architecture lists.     *)

\* every architecture the loops of verify_change_file meet is the name of
\* an architecture
ArchListsWellFormed(tree) ==
    \A n \in 1..Len(Triples(tree)) : Triples(tree)[n][3] \in Arches

\* one of the two manifests being compared is an empty document or carries
\* a string in place of an architecture list
MalformedManifest ==
    /\ pc = "verify_change_file"
    /\ \/ origin_data = None
       \/ ~ArchListsWellFormed(update_data)

(* C12, as claimed: when a manifest being compared is not well formed (an  *)
(* empty document, a string where the list of architectures is expected),  *)
(* verify_change_file does not return True, so the run cannot succeed with *)
(* no task for that manifest.                                              *)
C12_Original ==
    [][MalformedManifest => pc' # "verify_updates"]_vars

----------------------------------------------------------------------------
(* The working directory at the end of the script.                         *)

ProcessEnded == pc \in {"exit_0", "exit_1", "traceback"}

(* C13, as claimed: when the script has ended, with success or with        *)
(* failure (a failed clone, a failed verification, an error), the working  *)
(* directory no longer exists.                                             *)
C13_Original == ProcessEnded => ~work_dir_ok

----------------------------------------------------------------------------
(* Exceptions inside verify_updates.                                       *)

\* the step at hand is one in which an exception is raised: the token is
\* missing, requests.get fails, the proposed manifest cannot be iterated,
\* the baseline cannot be looked up, or package.yml cannot be read
ErrorRaised ==
    \/ pc = "get_change_files" /\ ~token_set
    \/ pc = "_request" /\ pc' \notin {"_request", "verify_updates"}
    \/ parsed' = parsed + 1 /\ pc' # "verify_change_file"
    \/ /\ pc = "verify_change_file"
       /\ origin_data = None
       /\ pos <= Len(Triples(update_data))
    \/ /\ Len(outcomes') = Len(outcomes) + 1
       /\ outcomes'[Len(outcomes')] = "metadata_error"

(* C14: verify_updates never stops anywhere but at a return, what it       *)
(* returns is a boolean, and a step in which an exception is raised (while *)
(* fetching the change list, parsing or comparing manifests, or reading    *)
(* the channel metadata) is its return of False.                           *)
C14_ErrorContainment ==
    /\ [](pc = "done" \/ ENABLED Next)
    /\ [](pc = "done" => result \in BOOLEAN)
    /\ [][ErrorRaised => (pc' = "done" /\ result' = FALSE)]_vars

\* the baseline was an empty document: the AttributeError became False
C14_Witness ==
    /\ pc = "done"
    /\ none_loaded
    /\ parsed = 1
    /\ result = FALSE
    /\ echo = "Unexpected error"

----------------------------------------------------------------------------
(* The pull request that adds 1.2.0 for 22.03-LTS-SP3 on x86_64 and noarch *)
(* to package foo, verified on an x86_64 host.                             *)

\* verify_updates has returned for the change list <<change_file>>
ScenarioDone(change_file) ==
    /\ pc = "done"
    /\ change_files = <<change_file>>
    /\ machine_arch = "x86_64"
    /\ work_dir_ok

BothSucceeded == outcomes = <<"success", "success">>

(* C15, as claimed: with packages/foo/support-versions.yml as the one      *)
(* changed file, verify_updates returns True if and only if two sandbox    *)
(* invocations were made and both exited 0.                                *)
C15_Original ==
    ScenarioDone(PathSupport) => (result <=> BothSucceeded)

(* C15, amended: with packages/foo/supported-versions.yml as the one       *)
(* changed file, the tasks are exactly (22.03-LTS-SP3, 1.2.0, x86_64) and  *)
(* (22.03-LTS-SP3, 1.2.0, noarch) in that order, the second is dispatched  *)
(* when the first succeeds, and verify_updates returns True if and only if *)
(* both sandbox invocations exited 0. Under the name support-versions.yml  *)
(* the file is skipped: no task, and verify_updates returns True.          *)
C15_Scenario ==
    /\ ScenarioDone(PathManifest) =>
          /\ result <=> BothSucceeded
          /\ Len(outcomes) <= 2
          /\ Len(outcomes) = 1 => outcomes[1] # "success"
    /\ (Exhausted /\ change_files = <<PathManifest>>
                  /\ machine_arch = "x86_64") =>
          tasks = << <<Os2203Sp3, "1.2.0", "x86_64">>,
                     <<Os2203Sp3, "1.2.0", "noarch">> >>
    /\ ScenarioDone(PathSupport) => (result /\ outcomes = <<>>)

\* both invocations exited 0 and the run succeeded
C15_Witness ==
    /\ ScenarioDone(PathManifest)
    /\ BothSucceeded
    /\ result

----------------------------------------------------------------------------
(* The phases of a run of verify_updates.                                  *)

\* Enumerating is get_change_files and _request, Diffing is the loop of
\* verify_updates over the changed files with the parsing and the loops of
\* verify_change_file, Dispatching is verify_package
Phase ==
    CASE pc = "get_change_files" -> "Init"
      [] pc = "_request" -> "Enumerating"
      [] pc \in {"verify_updates", "verify_change_file"} -> "Diffing"
      [] pc \in {"verify_package", "subprocess_run"} -> "Dispatching"
      [] pc = "done" /\ result -> "Succeeded"
      [] OTHER -> "Failed"

(* C16, as claimed: a run never returns from Dispatching to Diffing, that  *)
(* is, once a task has been handed to verify_package no manifest is parsed *)
(* or compared any more.                                                   *)
C16_Original ==
    [][Phase = "Dispatching" => Phase' # "Diffing"]_vars

(* C16, amended: a run starts in Init and moves to Enumerating, from there *)
(* to Diffing, and from there to Dispatching, and it can fail in any of    *)
(* them; it succeeds only from Diffing; it does return from Dispatching to *)
(* Diffing, exactly when the task at hand succeeded, to compare the next   *)
(* triple and parse the next manifest; when it has ended, in exactly one   *)
(* of Succeeded and Failed, nothing is parsed or dispatched any more.      *)
C16_PhaseOrder ==
    [][/\ Phase = "Init" => Phase' \in {"Enumerating", "Failed"}
       /\ Phase = "Enumerating" =>
             Phase' \in {"Enumerating", "Diffing", "Failed"}
       /\ Phase = "Diffing" =>
             Phase' \in {"Diffing", "Dispatching", "Succeeded", "Failed"}
       /\ Phase = "Dispatching" =>
             \/ Phase' \in {"Dispatching", "Failed"}
             \/ /\ Phase' = "Diffing"
                /\ outcomes' = Append(outcomes, "success")
       /\ Phase \in {"Succeeded", "Failed"} =>
             UNCHANGED <<pc, parsed, tasks, outcomes, info_reads>>]_vars

\* a second manifest is being compared after a task of the first one was
\* dispatched
C16_Witness ==
    /\ pc = "verify_change_file"
    /\ parsed = 2
    /\ outcomes # <<>>

----------------------------------------------------------------------------
(* The sequence of calls of verify_package.                                *)

\* the number of triples of the proposed manifest the loops have reached
Visited ==
    IF pc \in {"verify_package", "subprocess_run"} THEN pos ELSE pos - 1

\* the triple passes both filters: its architecture can be verified on this
\* machine, and the baseline does not declare it
NovelEligible(t) == Eligible(t) /\ ~Declares(origin_data, t)

----------------------------------------------------------------------------
(* The command line handed to subprocess.run.                              *)

\* the verification script, as the parts os.path.join is given after
\* work_dir
BaselineScript == <<ORIGIN_CODE_DIR, VERIFY_SCRIPT_FILE>>

\* the triple the command at hand was built for
CurrentTask == Triples(update_data)[pos]

(* C18, as claimed: the command being run is docker run with --privileged  *)
(* and a volume that mounts the verification script at its own path and    *)
(* read-only (the :ro option of -v); the script is given -p with the       *)
(* package name, -c with the channel and -v with the package version, and  *)
(* what follows, if anything, is -d and at least one dependency channel.   *)
C18_Original ==
    pc = "subprocess_run" =>
        /\ docker_cmd[5] = "--privileged"
        /\ docker_cmd[6] = "-v"
        /\ docker_cmd[7][1] = BaselineScript
        /\ docker_cmd[7][2] = ":"
        /\ docker_cmd[7][3] = BaselineScript
        /\ Len(docker_cmd[7]) = 4
        /\ docker_cmd[7][4] = ":ro"
        /\ docker_cmd[13] = "-p"
        /\ docker_cmd[14] = Split(change_files[idx])[2]
        /\ docker_cmd[15] = "-c"
        /\ docker_cmd[16] = "conda-forge"
        /\ docker_cmd[17] = "-v"
        /\ docker_cmd[18] = CurrentTask[2]
        /\ Len(docker_cmd) > 18 =>
              (docker_cmd[19] = "-d" /\ Len(docker_cmd) > 19)

----------------------------------------------------------------------------
(* Which checkout the script and the channel metadata come from.           *)

\* calls of verify_package that went past the test for the script
PastScriptTest ==
    Cardinality({n \in 1..Len(outcomes) : outcomes[n] # "script_missing"})
        + (IF pc = "subprocess_run" THEN 1 ELSE 0)

(* C19: the script mounted and executed by every sandbox command is        *)
(* scripts/verify.sh of the origin checkout, whatever the checkout of the  *)
(* proposal holds; package.yml is always read from the checkout of the     *)
(* proposal; and a call of verify_package that finds the script missing    *)
(* reads no package.yml and runs no command.                               *)
C19_TrustedScript ==
    /\ pc = "subprocess_run" =>
          /\ docker_cmd[12] = BaselineScript
          /\ docker_cmd[7] = <<BaselineScript, ":", BaselineScript>>
          /\ docker_cmd[12][1] # UPDATE_CODE_DIR
    /\ \A n \in 1..Len(info_reads) :
          /\ info_reads[n][1] = UPDATE_CODE_DIR
          /\ info_reads[n][Len(info_reads[n])] = PACKAGE_FILE
    /\ Len(info_reads) = PastScriptTest

\* a command is being run after package.yml of the proposal was read
C19_Witness ==
    /\ pc = "subprocess_run"
    /\ docker_cmd[12] = BaselineScript
    /\ Len(info_reads) = 1
    /\ info_reads[1][1] = UPDATE_CODE_DIR

----------------------------------------------------------------------------
(* Runs in which nothing is dispatched.                                    *)

\* verify_updates has returned after get_change_files gave a list that is
\* not empty
ReturnedWithChanges == pc = "done" /\ change_files # <<>>

(* C20: with a change list that is not empty and a working directory that  *)
(* exists, verify_updates returns True, with no sandbox command and no     *)
(* read of package.yml, when no changed file passed the filter, and also   *)
(* when the manifests that passed loaded as mappings and gave rise to no   *)
(* call of verify_package; with a working directory that does not exist it *)
(* returns False and no manifest has been parsed.                          *)
C20_VacuousSuccess ==
    /\ (ReturnedWithChanges /\ work_dir_ok /\ parsed = 0) =>
          (result /\ outcomes = <<>> /\ info_reads = <<>>)
    /\ (ReturnedWithChanges /\ work_dir_ok /\ ~none_loaded
                            /\ outcomes = <<>>) =>
          (result /\ info_reads = <<>>)
    /\ (ReturnedWithChanges /\ ~work_dir_ok) =>
          /\ result = FALSE
          /\ parsed = 0
          /\ outcomes = <<>>
          /\ echo = "Working directory not found"

\* every changed file was skipped by the filter and the run succeeded
C20_Witness ==
    /\ ReturnedWithChanges
    /\ Len(change_files) = 2
    /\ work_dir_ok
    /\ parsed = 0
    /\ result

====
